---- MODULE Spec2Model ----
(***************************************************************************)
(* Model of the route registry of bolts (src/src/router.rs).               *)
(*                                                                         *)
(* Strings are sequences of one-character strings, so that the regular     *)
(* expressions, to_lowercase, split('/') and the tokenizer loop act on     *)
(* characters as the Rust code does.  Option<T> is a sequence of length 0  *)
(* (None) or 1 (Some(x)).  The HashMap<RouteKey, Route> is a function      *)
(* whose domain is the set of keys.                                        *)
(***************************************************************************)
EXTENDS Integers, Sequences, FiniteSets, TLC

VARIABLES
    routes,   \* Router.routes : HashMap<RouteKey, Route>
    call,     \* the last call made on the router and its arguments
    result    \* what that call returned

vars == <<routes, call, result>>

----------------------------------------------------------------------------
(* Option<T> *)

None == << >>

Some(x) == <<x>>

----------------------------------------------------------------------------
(* Characters *)

\* The characters `\s` matches, among those the model draws from.
Whitespace == {" "}

\* char::to_lowercase on the letters the model draws from.
LowerChar(c) ==
    CASE c = "A" -> "a"
      [] c = "B" -> "b"
      [] OTHER -> c

\* A to_lowercase that leaves the string as it is.
to_lowercase_unchanged(s) == s

\* str::to_lowercase
to_lowercase(s) == [i \in DOMAIN s |-> LowerChar(s[i])]

----------------------------------------------------------------------------
(* REG = \A(/[^;#:\s/]+|/[:#;][^;#:\s/]+)*/?\z *)

\* [^;#:\s/]
RegTokenChar(c) == c \notin {";", "#", ":", "/"} /\ c \notin Whitespace

\* One repetition of the group matches s[i..j]:
\*   /[^;#:\s/]+   or   /[:#;][^;#:\s/]+
RegGroup(s, i, j) ==
    /\ s[i] = "/"
    /\ \/ /\ j >= i + 1
          /\ \A k \in (i + 1)..j : RegTokenChar(s[k])
       \/ /\ j >= i + 2
          /\ s[i + 1] \in {":", "#", ";"}
          /\ \A k \in (i + 2)..j : RegTokenChar(s[k])

\* (group)*/?\z matches the suffix of s that starts at position i.
RECURSIVE RegFrom(_, _)
RegFrom(s, i) ==
    \/ i = Len(s) + 1
    \/ i = Len(s) /\ s[i] = "/"
    \/ \E j \in (i + 1)..Len(s) : RegGroup(s, i, j) /\ RegFrom(s, j + 1)

\* REG.is_match(path)
REG_is_match(path) == RegFrom(path, 1)

----------------------------------------------------------------------------
(* DOM_REG_SIMPLE   = \A([^\.\*\s]+\.[^\.\s]+)+\z                           *)
(* DOM_REG_WILDCARD = \A\*\.([^\.\*\s]+\.[^\.\s]+)+\z                       *)

\* [^\.\*\s]
DomHeadChar(c) == c \notin {".", "*"} /\ c \notin Whitespace

\* [^\.\s]
DomTailChar(c) == c # "." /\ c \notin Whitespace

\* One repetition of the group [^\.\*\s]+\.[^\.\s]+ matches s[i..j].
DomGroup(s, i, j) ==
    \E m \in (i + 1)..(j - 1) :
        /\ s[m] = "."
        /\ \A k \in i..(m - 1) : DomHeadChar(s[k])
        /\ \A k \in (m + 1)..j : DomTailChar(s[k])

\* (group)+\z matches the suffix of s that starts at position i.
RECURSIVE DomFrom(_, _)
DomFrom(s, i) ==
    \E j \in (i + 2)..Len(s) :
        /\ DomGroup(s, i, j)
        /\ (j = Len(s) \/ DomFrom(s, j + 1))

\* DOM_REG_SIMPLE.is_match(dom)
DOM_REG_SIMPLE_is_match(dom) == DomFrom(dom, 1)

\* DOM_REG_WILDCARD.is_match(dom)
DOM_REG_WILDCARD_is_match(dom) ==
    /\ Len(dom) >= 2
    /\ dom[1] = "*"
    /\ dom[2] = "."
    /\ DomFrom(dom, 3)

----------------------------------------------------------------------------
(* The records of router.rs *)

\* enum RoutePart { Path(String), Int, Float, String }
RoutePartPath(text) == [kind |-> "Path", text |-> text]

RoutePartInt == [kind |-> "Int", text |-> << >>]

RoutePartFloat == [kind |-> "Float", text |-> << >>]

RoutePartString == [kind |-> "String", text |-> << >>]

\* enum RouteVar { Int(&str), Float(&str), String(&str) }
RouteVar(kind, name) == [kind |-> kind, name |-> name]

\* struct RouteKey { domain, parts, verb }
RouteKey(domain, parts, verb) == [domain |-> domain, parts |-> parts, verb |-> verb]

\* struct Route { domain, vars, verb, target }
Route(domain, routeVars, verb, target) ==
    [domain |-> domain, vars |-> routeVars, verb |-> verb, target |-> target]

\* Result<(), &'static str>, and the outcome of a lookup: the route found and
\* the parameter bag.
Ok == [ok |-> TRUE, err |-> "", hit |-> None, params |-> << >>]

Err(msg) == [ok |-> FALSE, err |-> msg, hit |-> None, params |-> << >>]

InvalidFormat == "invalid route format!"

InvalidDomain == "invalid domain!"

DuplicateRoute == "a route identical to this one has already been defined!"

----------------------------------------------------------------------------
(* Tokenization: path.split('/') and the loop over the tokens *)

\* The index of the first '/' of s, or 0.
FirstSlash(s) ==
    IF \E i \in 1..Len(s) : s[i] = "/"
    THEN CHOOSE i \in 1..Len(s) : s[i] = "/" /\ \A k \in 1..(i - 1) : s[k] # "/"
    ELSE 0

\* path.split('/'): the substrings between the slashes, empty ones included.
RECURSIVE split(_)
split(s) ==
    IF FirstSlash(s) = 0
    THEN <<s>>
    ELSE <<SubSeq(s, 1, FirstSlash(s) - 1)>>
             \o split(SubSeq(s, FirstSlash(s) + 1, Len(s)))

\* A match whose '#' arm pushes the part of the ';' arm.
PartOfTokenHashAsFloat(token) ==
    CASE token[1] = ":" -> RoutePartInt
      [] token[1] = "#" -> RoutePartFloat
      [] token[1] = ";" -> RoutePartFloat
      [] OTHER -> RoutePartPath(token)

\* What the match on the token's first character pushes to route_key.parts.
PartOfToken(token) ==
    CASE token[1] = ":" -> RoutePartInt
      [] token[1] = "#" -> RoutePartString
      [] token[1] = ";" -> RoutePartFloat
      [] OTHER -> RoutePartPath(token)

\* A match whose ':' arm pushes the variable of the ';' arm.
VarsOfTokenColonAsFloat(token) ==
    CASE token[1] = ":" -> <<RouteVar("Float", Tail(token))>>
      [] token[1] = "#" -> <<RouteVar("String", Tail(token))>>
      [] token[1] = ";" -> <<RouteVar("Float", Tail(token))>>
      [] OTHER -> << >>

\* What the same match pushes to route.vars: nothing for a literal.
VarsOfToken(token) ==
    CASE token[1] = ":" -> <<RouteVar("Int", Tail(token))>>
      [] token[1] = "#" -> <<RouteVar("String", Tail(token))>>
      [] token[1] = ";" -> <<RouteVar("Float", Tail(token))>>
      [] OTHER -> << >>

\* A loop that does not skip the empty tokens and pushes them as literals.
RECURSIVE KeyPartsKeepEmpty(_)
KeyPartsKeepEmpty(tokens) ==
    IF tokens = << >>
    THEN << >>
    ELSE IF Len(Head(tokens)) = 0
         THEN <<RoutePartPath(Head(tokens))>> \o KeyPartsKeepEmpty(Tail(tokens))
         ELSE <<PartOfToken(Head(tokens))>> \o KeyPartsKeepEmpty(Tail(tokens))

\* route_key.parts after the loop: empty tokens are skipped.
RECURSIVE KeyParts(_)
KeyParts(tokens) ==
    IF tokens = << >>
    THEN << >>
    ELSE IF Len(Head(tokens)) = 0
         THEN KeyParts(Tail(tokens))
         ELSE <<PartOfToken(Head(tokens))>> \o KeyParts(Tail(tokens))

\* route.vars after the loop.
RECURSIVE RouteVars(_)
RouteVars(tokens) ==
    IF tokens = << >>
    THEN << >>
    ELSE IF Len(Head(tokens)) = 0
         THEN RouteVars(Tail(tokens))
         ELSE VarsOfToken(Head(tokens)) \o RouteVars(Tail(tokens))

----------------------------------------------------------------------------
(* Router *)

\* HashMap::new()
EmptyRoutes == [k \in {} |-> k]

\* HashMap::insert: a value stored under an equal key is replaced.
insert(map, key, value) ==
    [k \in DOMAIN map \cup {key} |-> IF k = key THEN value ELSE map[k]]

\* HashMap::len
len(map) == Cardinality(DOMAIN map)

\* The domain after to_lowercase, as the key and the route store it.
LoweredDomain(domain) ==
    IF domain = None THEN None ELSE Some(to_lowercase(domain[1]))

\* The domain check of Router::route.
DomainRejected(domain) ==
    /\ domain # None
    /\ ~DOM_REG_SIMPLE_is_match(to_lowercase(domain[1]))
    /\ ~DOM_REG_WILDCARD_is_match(to_lowercase(domain[1]))

\* A key whose integer placeholders are stored as string placeholders.
KeyOfIntAsString(domain, verb, path) ==
    RouteKey(LoweredDomain(domain),
             [i \in DOMAIN KeyParts(split(path)) |->
                 IF KeyParts(split(path))[i] = RoutePartInt
                 THEN RoutePartString
                 ELSE KeyParts(split(path))[i]],
             verb)

\* The key Router::route builds for an accepted call.
KeyOf(domain, verb, path) ==
    RouteKey(LoweredDomain(domain), KeyParts(split(path)), verb)

\* The route Router::route builds for an accepted call.
RouteOf(domain, verb, path, target) ==
    Route(LoweredDomain(domain), RouteVars(split(path)), verb, target)

\* A route that does not compare the sizes.
InsertResultAlwaysOk(size, newSize) == Ok

\* Router::route returns Err when the insert did not grow the map.
InsertResult(size, newSize) ==
    IF size # newSize - 1 THEN Err(DuplicateRoute) ELSE Ok

RouteCall(domain, verb, path, target) ==
    [op |-> "route", domain |-> domain, verb |-> verb, path |-> path,
     target |-> Some(target)]

\* Router::route(domain, verb, path, target)
route(domain, verb, path, target) ==
    /\ call' = RouteCall(domain, verb, path, target)
    /\ IF ~REG_is_match(path)
       THEN /\ result' = Err(InvalidFormat)
            /\ UNCHANGED routes
       ELSE IF DomainRejected(domain)
       THEN /\ result' = Err(InvalidDomain)
            /\ UNCHANGED routes
       ELSE /\ routes' = insert(routes, KeyOf(domain, verb, path),
                                RouteOf(domain, verb, path, target))
            /\ result' = InsertResult(len(routes), len(routes'))

----------------------------------------------------------------------------
(* Lookup.  Router::find is called by tests/router_tests.rs but its code is  *)
(* not among the sources; it is modelled from the resolution algorithm of    *)
(* the specification (Tokenizer / Resolver, steps 1 to 6).                   *)

NotFound == "NotFound"

Digits == {"0", "1", "2", "3", "4", "5", "6", "7", "8", "9"}

DigitValue(c) ==
    CASE c = "0" -> 0 [] c = "1" -> 1 [] c = "2" -> 2 [] c = "3" -> 3
      [] c = "4" -> 4 [] c = "5" -> 5 [] c = "6" -> 6 [] c = "7" -> 7
      [] c = "8" -> 8 [] c = "9" -> 9

\* The value of a string of decimal digits.
RECURSIVE DecimalValue(_)
DecimalValue(s) ==
    IF s = << >>
    THEN 0
    ELSE DecimalValue(SubSeq(s, 1, Len(s) - 1)) * 10 + DigitValue(s[Len(s)])

\* The text parses as a signed integer with no residual characters; a leading
\* '+' is rejected.  The segments the model draws are far shorter than the 19
\* digits at which a 64-bit integer overflows.
IsIntText(s) ==
    LET body == IF s # << >> /\ s[1] = "-" THEN Tail(s) ELSE s
    IN  /\ body # << >>
        /\ \A i \in 1..Len(body) : body[i] \in Digits

\* The text parses as a finite floating-point number with no residual
\* characters: digits with at most one '.', and at least one digit.
IsFloatText(s) ==
    LET body == IF s # << >> /\ s[1] = "-" THEN Tail(s) ELSE s
    IN  /\ \E i \in 1..Len(body) : body[i] \in Digits
        /\ \A i \in 1..Len(body) : body[i] \in Digits \cup {"."}
        /\ Cardinality({i \in 1..Len(body) : body[i] = "."}) <= 1

\* The integer a text accepted by IsIntText denotes.
IntOfText(s) ==
    IF s[1] = "-" THEN 0 - DecimalValue(Tail(s)) ELSE DecimalValue(s)

\* CapturedValue: Int(i64), Float(f64) (kept as its text), String(text)
CapturedInt(n) == [kind |-> "Int", int |-> n, text |-> << >>]

CapturedFloat(text) == [kind |-> "Float", int |-> 0, text |-> text]

CapturedString(text) == [kind |-> "String", int |-> 0, text |-> text]

\* Step 1: the non-empty segments of the concrete path, split as patterns are.
RECURSIVE NonEmpty(_)
NonEmpty(tokens) ==
    IF tokens = << >>
    THEN << >>
    ELSE IF Len(Head(tokens)) = 0
         THEN NonEmpty(Tail(tokens))
         ELSE <<Head(tokens)>> \o NonEmpty(Tail(tokens))

RequestSegments(path) == NonEmpty(split(path))

\* Step 2: the candidate kinds of a segment, most specific first.
CandidateKinds(seg) ==
    <<RoutePartPath(seg)>>
        \o (IF IsIntText(seg) THEN <<RoutePartInt>> ELSE << >>)
        \o (IF IsFloatText(seg) THEN <<RoutePartFloat>> ELSE << >>)
        \o <<RoutePartString>>

\* Step 3: depth-first probing, left to right, Literal before Int before Float
\* before String; the first key present in the registry, or None.
RECURSIVE ProbeParts(_, _, _, _, _)
RECURSIVE ProbeKinds(_, _, _, _, _, _)
ProbeParts(map, domain, verb, prefix, segs) ==
    IF segs = << >>
    THEN IF RouteKey(domain, prefix, verb) \in DOMAIN map
         THEN Some(RouteKey(domain, prefix, verb))
         ELSE None
    ELSE ProbeKinds(map, domain, verb, prefix, segs, CandidateKinds(Head(segs)))

ProbeKinds(map, domain, verb, prefix, segs, kinds) ==
    IF kinds = << >>
    THEN None
    ELSE LET hit == ProbeParts(map, domain, verb,
                               Append(prefix, Head(kinds)), Tail(segs))
         IN  IF hit # None
             THEN hit
             ELSE ProbeKinds(map, domain, verb, prefix, segs, Tail(kinds))

\* Step 4: the wildcard domains "*.base" a request domain matches: base is the
\* domain itself or what follows one of its dots; the longest base first.
RECURSIVE WildcardsFrom(_, _)
WildcardsFrom(dom, i) ==
    IF i > Len(dom)
    THEN << >>
    ELSE IF i = 1 \/ dom[i - 1] = "."
         THEN <<Some(<<"*", ".">> \o SubSeq(dom, i, Len(dom)))>>
                  \o WildcardsFrom(dom, i + 1)
         ELSE WildcardsFrom(dom, i + 1)

\* Step 4: the registered domains a request domain is probed under: the exact
\* domain, then the wildcards, then routes without a domain.
DomainCandidates(domain) ==
    IF domain = None
    THEN <<None>>
    ELSE <<Some(to_lowercase(domain[1]))>>
             \o WildcardsFrom(to_lowercase(domain[1]), 1)
             \o <<None>>

RECURSIVE ProbeDomains(_, _, _, _)
ProbeDomains(map, domains, verb, segs) ==
    IF domains = << >>
    THEN None
    ELSE LET hit == ProbeParts(map, Head(domains), verb, << >>, segs)
         IN  IF hit # None
             THEN hit
             ELSE ProbeDomains(map, Tail(domains), verb, segs)

\* Step 5: the captured values of the segments the winning key takes as
\* placeholders, in order.
RECURSIVE Captures(_, _)
Captures(parts, segs) ==
    IF parts = << >>
    THEN << >>
    ELSE (CASE Head(parts).kind = "Int" -> <<CapturedInt(IntOfText(Head(segs)))>>
            [] Head(parts).kind = "Float" -> <<CapturedFloat(Head(segs))>>
            [] Head(parts).kind = "String" -> <<CapturedString(Head(segs))>>
            [] OTHER -> << >>)
         \o Captures(Tail(parts), Tail(segs))

\* Step 5: the parameter bag, keyed by the names of the route's placeholders.
ParameterBag(theRoute, captured) ==
    [n \in {theRoute.vars[i].name : i \in 1..Len(theRoute.vars)} |->
        LET i == CHOOSE j \in 1..Len(theRoute.vars) :
                    /\ theRoute.vars[j].name = n
                    /\ \A m \in (j + 1)..Len(theRoute.vars) :
                           theRoute.vars[m].name # n
        IN  captured[i]]

Found(theRoute, bag) ==
    [ok |-> TRUE, err |-> "", hit |-> Some(theRoute), params |-> bag]

FindCall(verb, path, domain) ==
    [op |-> "find", domain |-> domain, verb |-> verb, path |-> path,
     target |-> None]

\* What Router::find returns.
Resolution(map, verb, path, domain) ==
    LET segs == RequestSegments(path)
        hit == ProbeDomains(map, DomainCandidates(domain), verb, segs)
    IN  IF hit = None
        THEN Err(NotFound)
        ELSE Found(map[hit[1]],
                   ParameterBag(map[hit[1]], Captures(hit[1].parts, segs)))

\* Router::find(verb, path, domain)
find(verb, path, domain) ==
    /\ call' = FindCall(verb, path, domain)
    /\ result' = Resolution(routes, verb, path, domain)
    /\ UNCHANGED routes

----------------------------------------------------------------------------
(* Inputs and specifications *)

\* All strings over chars of length at most n.
Strings(chars, n) == UNION {[1..k -> chars] : k \in 0..n}

\* The registry specification stops registering at this many routes.
MaxRoutes == 2

\* The longest pattern of the path-grammar specification.
MaxPathLen == 6

\* The longest domain of the domain-grammar specification.
MaxDomLen == 6

\* enum Verb
Verbs == {"Get", "Post", "Put", "Patch", "Delete", "Head"}

\* Endpoint values: two handler functions.
Targets == {"h1", "h2"}

\* Patterns, request paths, domains and verbs offered to the registry.
RegPaths ==
    { <<"/", "a">>, <<"/", "a", "/">>, <<"a">>,
      <<"/", "a", "/", ":", "i">>, <<"/", "a", "/", ":", "j">>,
      <<"/", "a", "/", "3">>, <<"/", "a", "/", "#", "s">> }

ReqPaths == { <<"/", "a">>, <<"/", "a", "/", "3">> }

ReqDomains == { None, Some(<<"a", ".", "b">>) }

RegDomains ==
    { None, Some(<<"a", ".", "b">>), Some(<<"A", ".", "b">>), Some(<<"a", "b">>) }

RegVerbs == {"Get", "Delete"}

\* Characters of the patterns and of the domains of the grammar specifications.
PathChars == {"/", ":", "#", ";", " ", "a"}

DomChars == {".", "*", " ", "a", "A"}

NewCall ==
    [op |-> "new", domain |-> None, verb |-> "Get", path |-> << >>,
     target |-> None]

\* Router::new()
Init ==
    /\ routes = EmptyRoutes
    /\ call = NewCall
    /\ result = Ok

\* A registration on a router that holds fewer than MaxRoutes routes.
Register ==
    \E d \in RegDomains, v \in RegVerbs, p \in RegPaths, t \in Targets :
        /\ len(routes) < MaxRoutes
        /\ route(d, v, p, t)

\* A lookup.
Resolve ==
    \E v \in RegVerbs, p \in ReqPaths, d \in ReqDomains : find(v, p, d)

Next == Register \/ Resolve

Spec == Init /\ [][Next]_vars

\* The first call on a new router registers any pattern.
RegisterPath ==
    /\ call = NewCall
    /\ \E p \in Strings(PathChars, MaxPathLen) : route(None, "Patch", p, "h1")

SpecPath == Init /\ [][RegisterPath]_vars

\* The first call on a new router registers under any domain.
RegisterDomain ==
    /\ call = NewCall
    /\ \E d \in Strings(DomChars, MaxDomLen) :
           route(Some(d), "Post", <<"/", "a">>, "h1")

SpecDomain == Init /\ [][RegisterDomain]_vars

----------------------------------------------------------------------------
(* What the specification says of patterns and domains, stated on the        *)
(* characters of the string and not through the code's regular expressions,  *)
(* split and loop.                                                           *)

Last(s) == s[Len(s)]

Front(s) == SubSeq(s, 1, Len(s) - 1)

\* The positions at which a non-empty '/'-separated segment of p starts.
SegStarts(p) == {i \in 1..Len(p) : p[i] # "/" /\ (i = 1 \/ p[i - 1] = "/")}

\* The position at which the segment that starts at i ends.
SegEnd(p, i) ==
    CHOOSE j \in i..Len(p) :
        /\ \A k \in i..j : p[k] # "/"
        /\ (j = Len(p) \/ p[j + 1] = "/")

\* The start of the n-th segment.
NthStart(p, n) ==
    CHOOSE i \in SegStarts(p) : Cardinality({j \in SegStarts(p) : j < i}) = n - 1

\* The non-empty segments of p, in order.
Segments(p) ==
    [n \in 1..Cardinality(SegStarts(p)) |->
        SubSeq(p, NthStart(p, n), SegEnd(p, NthStart(p, n)))]

IsPlaceholder(seg) == seg[1] \in {":", "#", ";"}

\* The kind a segment denotes by its first character.
KindName(seg) ==
    CASE seg[1] = ":" -> "Int"
      [] seg[1] = "#" -> "String"
      [] seg[1] = ";" -> "Float"
      [] OTHER -> "Path"

SegmentKind(seg) ==
    [kind |-> KindName(seg), text |-> IF IsPlaceholder(seg) THEN << >> ELSE seg]

\* The ordered segment-kind sequence of a pattern.
SegmentKinds(p) == [n \in DOMAIN Segments(p) |-> SegmentKind(Segments(p)[n])]

Placeholder(seg) == [kind |-> KindName(seg), name |-> Tail(seg)]

\* The placeholders of a pattern, left to right.
Placeholders(p) ==
    LET phs == SelectSeq(Segments(p), IsPlaceholder)
    IN  [n \in DOMAIN phs |-> Placeholder(phs[n])]

\* The lowercase form of a domain.
Lowered(d) ==
    [i \in DOMAIN d |-> IF d[i] = "A" THEN "a" ELSE IF d[i] = "B" THEN "b" ELSE d[i]]

\* plain := label ("." label)+ with non-empty labels, no '*', no whitespace.
IsPlain(d) ==
    /\ Len(d) > 0
    /\ \A i \in 1..Len(d) : d[i] # "*" /\ d[i] # " "
    /\ \E i \in 1..Len(d) : d[i] = "."
    /\ d[1] # "."
    /\ d[Len(d)] # "."
    /\ \A i \in 1..(Len(d) - 1) : ~(d[i] = "." /\ d[i + 1] = ".")

\* wildcard := "*." plain
IsWildcard(d) ==
    /\ Len(d) > 2
    /\ d[1] = "*"
    /\ d[2] = "."
    /\ IsPlain(SubSeq(d, 3, Len(d)))

IsRouteCall == call.op = "route"

----------------------------------------------------------------------------
(* C4 *)

\* C4: every pattern that does not begin with '/', the empty string included,
\* is rejected with the invalid-format error and the registry is unchanged.
C4_NoLeadingSlashRejected ==
    (IsRouteCall /\ (call.path = << >> \/ call.path[1] # "/"))
        => (result = Err(InvalidFormat) /\ routes = EmptyRoutes)

----------------------------------------------------------------------------
(* C5, C6 *)

\* C5: every domain that is, once lowercased, a plain dotted form or a
\* wildcard form is accepted, and the stored route's domain is the lowercased
\* input.
C5_GrammarDomainsAccepted ==
    (/\ IsRouteCall
     /\ call.domain # None
     /\ (IsPlain(Lowered(call.domain[1])) \/ IsWildcard(Lowered(call.domain[1]))))
        => /\ result = Ok
           /\ len(routes) = 1
           /\ \A k \in DOMAIN routes :
                  routes[k].domain = Some(Lowered(call.domain[1]))

\* C6: every domain that is neither a plain dotted form nor a wildcard form is
\* rejected with the invalid-domain error and the registry is unchanged.
C6_OtherDomainsRejected ==
    (/\ IsRouteCall
     /\ call.domain # None
     /\ ~IsPlain(Lowered(call.domain[1]))
     /\ ~IsWildcard(Lowered(call.domain[1])))
        => (result = Err(InvalidDomain) /\ routes = EmptyRoutes)

----------------------------------------------------------------------------
(* C7 *)

\* C7: an accepted pattern stores one route, whose key holds one kind per
\* non-empty segment, in order, chosen by the segment's first character, and
\* whose placeholder list holds one entry per non-literal segment, in order,
\* with that kind and the text after the marker as its name.
C7_TokenizationByMarker ==
    (IsRouteCall /\ result = Ok)
        => /\ len(routes) = 1
           /\ \A k \in DOMAIN routes :
                  /\ k.parts = SegmentKinds(call.path)
                  /\ routes[k].vars = Placeholders(call.path)

\* A pattern with a literal and a string placeholder of two characters was
\* accepted and stored as [Literal a, String] with the name aa.
C7_Witness ==
    /\ IsRouteCall
    /\ result = Ok
    /\ call.path = <<"/", "a", "/", "#", "a", "a">>
    /\ \E k \in DOMAIN routes :
           /\ k.parts = <<RoutePartPath(<<"a">>), RoutePartString>>
           /\ routes[k].vars = <<RouteVar("String", <<"a", "a">>)>>

----------------------------------------------------------------------------
(* Claims about the registry.  A step's unprimed call and result are the     *)
(* previous call and what it returned; the primed ones are this call's.      *)

IsRouteStep == call'.op = "route"

\* The call of this step passed the pattern and the domain checks.
ValidRouteStep ==
    IsRouteStep /\ result'.err \notin {InvalidFormat, InvalidDomain}

\* Key k is the one the specification gives a registration call c: the same
\* verb, the same lowercased domain or both absent, the same segment kinds.
SameRoute(k, c) ==
    /\ k.verb = c.verb
    /\ k.domain = (IF c.domain = None THEN None ELSE Some(Lowered(c.domain[1])))
    /\ k.parts = SegmentKinds(c.path)

\* A pattern of literal segments only.
IsLiteralPath(p) == \A i \in 1..Len(p) : p[i] \notin {":", "#", ";"}

\* One of p, q is the other with a trailing slash added; the shorter one does
\* not end in a slash.
TrailingSlashPair(p, q) ==
    \/ q = Append(p, "/") /\ (p = << >> \/ Last(p) # "/")
    \/ p = Append(q, "/") /\ (q = << >> \/ Last(q) # "/")

\* This step registers, with the verb and the domain of the registration that
\* has just succeeded, the trailing-slash counterpart of its literal pattern.
C1_Case ==
    /\ call.op = "route"
    /\ result = Ok
    /\ IsRouteStep
    /\ call'.verb = call.verb
    /\ call'.domain = call.domain
    /\ IsLiteralPath(call.path)
    /\ TrailingSlashPair(call.path, call'.path)

\* C1 as written: a literal pattern and its trailing-slash counterpart have
\* distinct keys, so the second registration succeeds too and the registry
\* grows again.
C1_TrailingSlashDistinct ==
    [][C1_Case => (result' = Ok /\ len(routes') = len(routes) + 1)]_vars

\* C1, amended: a literal pattern and its trailing-slash counterpart have the
\* same key: after one is registered, registering the other returns the
\* duplicate-route error and the registry keeps its size, one route for both.
C1_TrailingSlashSameKey ==
    [][C1_Case =>
          /\ result' = Err(DuplicateRoute)
          /\ len(routes') = len(routes)
          /\ DOMAIN routes' = DOMAIN routes]_vars

\* The pattern /a/ was refused as a duplicate on a registry whose only key is
\* the literal a.
C1_Witness ==
    /\ IsRouteCall
    /\ call.path = <<"/", "a", "/">>
    /\ result = Err(DuplicateRoute)
    /\ \E k \in DOMAIN routes :
           /\ DOMAIN routes = {k}
           /\ k.parts = <<RoutePartPath(<<"a">>)>>

\* C2: a valid register call returns the duplicate-route error exactly when
\* the registry already holds a route with the same verb, lowercased domain
\* and segment kinds; then the size is unchanged; otherwise it returns Ok and
\* the registry grows by one.
C2_DuplicateExactlyOnSameKey ==
    [][ValidRouteStep =>
          LET held == \E k \in DOMAIN routes : SameRoute(k, call')
          IN  /\ (result' = Err(DuplicateRoute)) <=> held
              /\ held => len(routes') = len(routes)
              /\ ~held => (result' = Ok /\ len(routes') = len(routes) + 1)]_vars

\* /a/:j under domain A.b was refused as a duplicate on a registry whose only
\* route has the domain a.b and an integer placeholder.
C2_Witness ==
    /\ IsRouteCall
    /\ call.path = <<"/", "a", "/", ":", "j">>
    /\ call.domain = Some(<<"A", ".", "b">>)
    /\ result = Err(DuplicateRoute)
    /\ \E k \in DOMAIN routes :
           /\ DOMAIN routes = {k}
           /\ k.domain = Some(<<"a", ".", "b">>)
           /\ k.parts = <<RoutePartPath(<<"a">>), RoutePartInt>>

\* C3: a register call that fails with the duplicate-route error leaves the
\* route stored under that key, handler and placeholder names, as it was.
C3_DuplicateKeepsStoredRoute ==
    [][(IsRouteStep /\ result' = Err(DuplicateRoute)) => routes' = routes]_vars

\* C9: after a pattern ending in '/' was registered successfully, registering
\* it without the trailing slash, same verb and domain, does not return Ok.
C9_SlashlessAfterSlashNotOk ==
    [][(/\ call.op = "route"
        /\ result = Ok
        /\ call.path # << >>
        /\ Last(call.path) = "/"
        /\ IsRouteStep
        /\ call'.path = Front(call.path)
        /\ call'.verb = call.verb
        /\ call'.domain = call.domain)
          => ~result'.ok]_vars

\* The pattern /a was refused on a registry that holds the literal a for the
\* call's verb and no domain.
C9_Witness ==
    /\ IsRouteCall
    /\ call.path = <<"/", "a">>
    /\ call.domain = None
    /\ ~result.ok
    /\ RouteKey(None, <<RoutePartPath(<<"a">>)>>, call.verb) \in DOMAIN routes

\* The kinds of a key's non-literal parts, in order.
PlaceholderKinds(parts) ==
    LET phs == SelectSeq(parts, LAMBDA part : part.kind # "Path")
    IN  [n \in DOMAIN phs |-> phs[n].kind]

\* C10: in every reachable registry, each stored route has the verb and the
\* domain of its key, and its placeholder list has the kinds of the key's
\* non-literal segments, in order.
C10_EntriesSelfConsistent ==
    \A k \in DOMAIN routes :
        /\ routes[k].verb = k.verb
        /\ routes[k].domain = k.domain
        /\ [n \in DOMAIN routes[k].vars |-> routes[k].vars[n].kind]
               = PlaceholderKinds(k.parts)

\* A registration under the domain A.b made the registry's second route, and
\* one of the two has a string placeholder and the lowercased domain.
C10_Witness ==
    /\ IsRouteCall
    /\ call.domain = Some(<<"A", ".", "b">>)
    /\ result = Ok
    /\ len(routes) = 2
    /\ \E k \in DOMAIN routes :
           /\ k.domain = Some(<<"a", ".", "b">>)
           /\ routes[k].vars = <<RouteVar("String", <<"s">>)>>

----------------------------------------------------------------------------
(* C8 *)

\* A non-empty string of decimal digits.
IsDecimal(seg) == seg # << >> /\ \A i \in 1..Len(seg) : seg[i] \in Digits

\* The concrete path has the literal segments of the pattern and a decimal
\* integer in the place of each of its integer placeholders; the pattern has
\* no other placeholder.
Fits(pattern, path) ==
    /\ Len(Segments(path)) = Len(Segments(pattern))
    /\ \A i \in DOMAIN Segments(pattern) :
           \/ /\ ~IsPlaceholder(Segments(pattern)[i])
              /\ Segments(path)[i] = Segments(pattern)[i]
           \/ /\ Segments(pattern)[i][1] = ":"
              /\ IsDecimal(Segments(path)[i])

\* A key part admits a concrete segment.
Admits(part, seg) ==
    CASE part.kind = "Path" -> part.text = seg
      [] part.kind = "Int" -> IsIntText(seg)
      [] part.kind = "Float" -> IsFloatText(seg)
      [] OTHER -> TRUE

\* Another key admits the path and is more specific than the pattern's: where
\* they first differ it has the segment as a literal.
MoreSpecific(parts, pattern, path) ==
    /\ Len(parts) = Len(Segments(path))
    /\ \A i \in DOMAIN parts : Admits(parts[i], Segments(path)[i])
    /\ \E i \in DOMAIN parts :
           /\ \A j \in 1..(i - 1) : parts[j] = SegmentKinds(pattern)[j]
           /\ parts[i].kind = "Path"
           /\ SegmentKinds(pattern)[i].kind = "Int"

\* The registry holds a more specific route for the request of this step.
Shadowed ==
    \E k \in DOMAIN routes :
        /\ k.verb = call'.verb
        /\ k.domain = LoweredDomain(call'.domain)
        /\ MoreSpecific(k.parts, call.path, call'.path)

\* The parameter bag of a request that fits a pattern: each integer
\* placeholder's name mapped to the Int value of its segment.
ExpectedBag(pattern, path) ==
    [n \in {Tail(Segments(pattern)[i]) :
                i \in {j \in DOMAIN Segments(pattern) :
                           IsPlaceholder(Segments(pattern)[j])}} |->
        LET i == CHOOSE j \in DOMAIN Segments(pattern) :
                     /\ IsPlaceholder(Segments(pattern)[j])
                     /\ Tail(Segments(pattern)[j]) = n
        IN  CapturedInt(DecimalValue(Segments(path)[i]))]

\* This step resolves, with the verb and the domain of the registration that
\* has just succeeded, a path that fits its pattern.
C8_Case ==
    /\ call.op = "route"
    /\ result = Ok
    /\ call'.op = "find"
    /\ call'.verb = call.verb
    /\ call'.domain = call.domain
    /\ Fits(call.path, call'.path)

\* The lookup of this step returns the route the registration stored and the
\* bag that maps each placeholder name to the Int value of its segment.
C8_Found ==
    /\ result'.ok
    /\ result'.hit =
           Some(Route(LoweredDomain(call.domain), Placeholders(call.path),
                      call.verb, call.target[1]))
    /\ result'.params = ExpectedBag(call.path, call'.path)

====
